---------------------------- MODULE Spec2Model ----------------------------
(***************************************************************************)
(* A model of the ITI data pipeline:                                       *)
(*   - iti/data/dataset.py : BaseDataset, StackDataset, StorageDataset     *)
(*     (the on-disk .npy cache and its bulk convert job) and               *)
(*     get_intersecting_files;                                             *)
(*   - iti/translate.py    : the padding size computation of               *)
(*     _translateDataset and the tiling of _translateBlocks.               *)
(*                                                                         *)
(* Conventions.  Python indices are kept 0-based; a Python list l is a     *)
(* TLA+ sequence and l[i] is written At(l, i).  A file name is the         *)
(* sequence of its '.'-separated segments, so "f1.fits" is <<1, "fits">>   *)
(* and '%s.npy' % id appends the segment "npy".  A call that may raise     *)
(* returns a record whose ok field is FALSE when it raised.                *)
(***************************************************************************)
EXTENDS Integers, Sequences, FiniteSets, TLC

\* Bounds of the model.
MaxFiles == 3
MaxReads == 2
MaxEditors == 1
MaxNames == 4
MaxSamples == 2
MaxChan == 2
MaxPatch == 3
MaxTile == 2
MaxDim == 5
MaxDepth == 2

VARIABLES
    \* ---- the wrapped dataset and the storage cache (dataset.py) ----
    kind,        \* "base": a BaseDataset of files, "stack": a StackDataset
    data,        \* BaseDataset.data of the wrapped dataset
    data_sets,   \* StackDataset.data_sets, each child given by its .data
    corrupt,     \* the files whose loading raises
    editors,     \* the editor chain of the wrapped dataset (upstream)
    ext_editors, \* StorageDataset.ext_editors (post-cache chain)
    store,       \* the files of store_dir: store path -> .npy content
    last,        \* the latest StorageDataset.__getitem__ call
    prev,        \* the call before it
    calls,       \* number of __getitem__ calls so far
    nReads,      \* number of direct reads so far
    pc,          \* convert(): "idle", "convert", "done"
    i,           \* convert(): the loop variable
    itPos,       \* convert(): position of the DataLoader's sampler
    attempted,   \* convert(): indices handed to __getitem__, in order
    failed,      \* convert(): indices whose next(it) raised
    log,         \* convert(): the samples logged as invalid
    \* ---- get_intersecting_files (dataset.py) ----
    tree,        \* the directory tree: instrument directory -> basenames found
    fargs,       \* the arguments of the call
    fresult,     \* what the call returned or raised ("pending" before it)
    \* ---- InstrumentToInstrument (translate.py) ----
    tin,         \* the call: _translateBlocks or _translateDataset, its inputs
    tout,        \* what the call computed or raised ("pending" before it)
    \* ---- sample(n_samples) (dataset.py) ----
    receiver,    \* "dataset": the dataset itself, "storage": the StorageDataset
    sample_n,   \* the argument n_samples of sample
    it,          \* the DataLoader iterator: its shuffled order and position
    samples,     \* the list samples
    spc,         \* sample(): "start", "loop", "try", "return", "done"
    sret         \* what sample returned or raised ("pending" before it)

storageVars == <<kind, data, data_sets, corrupt, editors, ext_editors, store,
                 last, prev, calls, nReads, pc, i, itPos, attempted, failed, log>>

filesVars == <<tree, fargs, fresult>>

tileVars == <<tin, tout>>

sampleVars == <<receiver, sample_n, it, samples, spc, sret>>

vars == <<storageVars, filesVars, tileVars, sampleVars>>

\* l[i] of a Python list.
At(l, idx) == l[idx + 1]

\* l[-1]
Last(l) == l[Len(l)]

\* range(n)
Range(n) == 0 .. (n - 1)

\* A raised exception, and a returned value.
Raised == [ok |-> FALSE, val |-> <<>>, src |-> <<>>]
Return(v, s) == [ok |-> TRUE, val |-> v, src |-> s]

-----------------------------------------------------------------------------
(* Files and identifiers *)

\* The k-th file of a recursive glob over a directory tree with two
\* sub-directories: a/f1.fits, a/f2.fits, b/f1.fits, b/f2.fits, ...
\* (sorted order is the order of k).
TreeFile(k) == [dir |-> (k - 1) \div 2, base |-> <<((k - 1) % 2) + 1, "fits">>]

\* The k-th file of one instrument directory: 171/f1.fits, 171/f2.fits, ...
InstrumentFile(k) == [dir |-> 171, base |-> <<k, "fits">>]

\* os.path.basename(path)
Basename(path) == path.base

\* s.split('.')[0], as a string again (one segment)
SplitDot0(s) == <<s[1]>>

\* The pixel data stored in a FITS file: two pixels that tell files apart.
FitsData(path) == <<path.dir % 3, path.base[1] % 3>>


-----------------------------------------------------------------------------
(* Editors and editor chains *)

\* np.concatenate of two arrays along the first axis
Concat(a, b) == a \o b

\* BaseDataset.__getitem__ of child dataset ds (given by its .data) of a
\* StackDataset: an instrument dataset whose chain loads the file.
ChildGetItem(ds, idx) ==
    IF idx \notin Range(Len(ds)) \/ At(ds, idx) \in corrupt
    THEN Raised
    ELSE Return(FitsData(At(ds, idx)), <<At(ds, idx)>>)

\* StackEditor.convert: sample idx of every child, concatenated; raises
\* when a child raises.
RECURSIVE StackConvert(_, _, _)
StackConvert(dss, idx, acc) ==
    IF dss = <<>> THEN acc
    ELSE LET c == ChildGetItem(Head(dss), idx)
         IN  IF ~c.ok THEN Raised
             ELSE StackConvert(Tail(dss), idx,
                               Return(Concat(acc.val, c.val), acc.src \o c.src))

\* Editor.convert of editor e on value x (kwargs are not modelled: no
\* caller below reads them).
\*   "load"  : read the pixel data of the file x (raises on a corrupt file)
\*   "stack" : the StackEditor of data_sets on index x
\*   "inc"   : a normalisation, pixel by pixel
\*   "crop"  : keep the first pixel (a patch editor)
\*   "check" : raises when the first pixel is 1, else the identity
EditorConvert(e, x, src) ==
    CASE e = "load"  -> IF x \in corrupt THEN Raised
                        ELSE Return(FitsData(x), <<x>>)
      [] e = "stack" -> StackConvert(data_sets, x, Return(<<>>, <<>>))
      [] e = "inc"   -> Return([k \in DOMAIN x |-> (x[k] + 1) % 3], src)
      [] e = "crop"  -> Return(SubSeq(x, 1, 1), src)
      [] e = "check" -> IF x[1] = 1 THEN Raised ELSE Return(x, src)

\* convertData: the fold of the chain over the sample; an editor that
\* raises aborts the chain.
RECURSIVE RunChain(_, _)
RunChain(chain, r) ==
    IF chain = <<>> \/ ~r.ok THEN r
    ELSE RunChain(Tail(chain), EditorConvert(Head(chain), r.val, r.src))

\* BaseDataset.convertData
convertData(x) == RunChain(editors, Return(x, <<>>))

\* BaseDataset.getIndex / __getitem__: convertData(self.data[idx]); the
\* exception is logged and raised again.
getIndex(idx) ==
    IF idx \notin Range(Len(data)) THEN Raised
    ELSE convertData(At(data, idx))

\* BaseDataset.getId and its override StackDataset.getId
getId(idx) ==
    IF kind = "stack"
    THEN SplitDot0(Basename(At(At(data_sets, 0), idx)))
    ELSE Basename(At(data, idx))

-----------------------------------------------------------------------------
(* The storage cache *)

\* os.path.join(store_dir, '%s.npy' % id)
StorePath(id) == Append(id, "npy")

\* np.save writes the .npy file: a header with the shape, then the pixels.
NpSave(arr) == [shape |-> Len(arr), payload |-> arr]

\* np.load(mmap_mode='r+') maps the payload with the shape of the header.
NpLoad(f) == [k \in 1 .. f.shape |-> f.payload[k]]

\* "no file", for the records that remember a file
NoFile == [shape |-> -1, payload |-> <<>>]

\* StorageDataset.convertData: the ext_editors chain
extConvertData(x) == RunChain(ext_editors, Return(x, <<>>))

\* os.path.exists(store_path)
Exists(p) == p \in DOMAIN store

\* __getitem__ without the os.path.exists test: the wrapped dataset is run
\* and its result saved on every read.
StorageGetItemRecompute(idx) ==
    LET store_path == StorePath(getId(idx))
        d == getIndex(idx)
    IN  IF ~d.ok
        THEN [hit |-> FALSE, upstream |-> TRUE, raw |-> d,
              ret |-> Raised, store |-> store]
        ELSE [hit |-> FALSE, upstream |-> TRUE, raw |-> d,
              ret |-> extConvertData(d.val),
              store |-> (store_path :> NpSave(d.val)) @@ store]

\* __getitem__ whose cache-hit branch returns the loaded array without
\* running ext_editors on it.
StorageGetItemHitSkipsExt(idx) ==
    LET store_path == StorePath(getId(idx))
    IN  IF Exists(store_path)
        THEN [hit |-> TRUE, upstream |-> FALSE, raw |-> Raised,
              ret |-> Return(NpLoad(store[store_path]), <<>>),
              store |-> store]
        ELSE LET d == getIndex(idx)
             IN  IF ~d.ok
                 THEN [hit |-> FALSE, upstream |-> TRUE, raw |-> d,
                       ret |-> Raised, store |-> store]
                 ELSE [hit |-> FALSE, upstream |-> TRUE, raw |-> d,
                       ret |-> extConvertData(d.val),
                       store |-> (store_path :> NpSave(d.val)) @@ store]

\* StorageDataset.__getitem__(idx): what it returns (ret), what it leaves
\* in store_dir (store), and whether it ran the wrapped dataset (upstream,
\* with its result raw).
StorageGetItem(idx) ==
    LET store_path == StorePath(getId(idx))
    IN  IF Exists(store_path)
        THEN [hit |-> TRUE, upstream |-> FALSE, raw |-> Raised,
              ret |-> extConvertData(NpLoad(store[store_path])),
              store |-> store]
        ELSE LET d == getIndex(idx)
             IN  IF ~d.ok
                 THEN [hit |-> FALSE, upstream |-> TRUE, raw |-> d,
                       ret |-> Raised, store |-> store]
                 ELSE [hit |-> FALSE, upstream |-> TRUE, raw |-> d,
                       ret |-> extConvertData(d.val),
                       store |-> (store_path :> NpSave(d.val)) @@ store]

\* The record kept of a call of __getitem__(idx) with outcome r.
CallRecord(idx, r) ==
    [idx |-> idx, hit |-> r.hit, upstream |-> r.upstream, raw |-> r.raw,
     ret |-> [ok |-> r.ret.ok, val |-> r.ret.val],
     file |-> IF StorePath(getId(idx)) \in DOMAIN r.store
              THEN r.store[StorePath(getId(idx))] ELSE NoFile]

NoCall ==
    [idx |-> -1, hit |-> FALSE, upstream |-> FALSE, raw |-> Raised,
     ret |-> [ok |-> FALSE, val |-> <<>>], file |-> NoFile]

-----------------------------------------------------------------------------
(* Construction *)

\* random.sample(population, k): any k distinct positions, in any order
RandomSample(population, k) ==
    { [j \in 1 .. k |-> population[f[j]]] :
        f \in { g \in [1 .. k -> 1 .. Len(population)] :
                  \A a, b \in 1 .. k : a # b => g[a] # g[b] } }

\* BaseDataset.__init__: the data list is kept as given, or subsampled
\* without replacement when a limit is given (limit < 0 stands for None).
BaseInitData(given, limit) ==
    IF limit >= 0 THEN RandomSample(given, limit) ELSE {given}

\* StackDataset.__init__: the data of a stack is list(range(len(data_sets[0])))
StackInitData(dss, limit) ==
    BaseInitData([k \in 1 .. Len(At(dss, 0)) |-> k - 1], limit)

\* The editor chains a StorageDataset is given as ext_editors here.
ExtChains == { <<>>, <<"check">>, <<"inc", "crop">> }

\* The editors addEditor appends here.
AddedEditors == { "inc" }

\* No call of get_intersecting_files is in progress.
FilesIdle ==
    /\ tree = <<>>
    /\ fargs = <<>>
    /\ fresult = [state |-> "idle"]

\* No call of InstrumentToInstrument is in progress.
TileIdle ==
    /\ tin = [op |-> "idle"]
    /\ tout = [state |-> "idle"]

\* No call of sample is in progress.
SampleIdle ==
    /\ receiver = "dataset"
    /\ sample_n = 0
    /\ it = [order |-> <<>>, pos |-> 0]
    /\ samples = <<>>
    /\ spc = "idle"
    /\ sret = [state |-> "idle"]

InitStorage ==
    /\ kind \in {"base", "stack"}
    /\ IF kind = "stack"
       THEN /\ data_sets = << [k \in 1 .. MaxFiles |-> InstrumentFile(k)] >>
            /\ \E limit \in {-1} \cup (1 .. MaxFiles) :
                 data \in StackInitData(data_sets, limit)
            /\ editors = <<"stack">>
       ELSE /\ data_sets = <<>>
            /\ data \in BaseInitData([k \in 1 .. MaxFiles |-> TreeFile(k)], -1)
            /\ editors = <<"load">>
    /\ corrupt \in { c \in SUBSET ({TreeFile(k) : k \in 1 .. MaxFiles}
                                   \cup {InstrumentFile(k) : k \in 1 .. MaxFiles}) :
                       /\ Cardinality(c) <= 1
                       /\ \A f \in c : f.dir = 171 <=> kind = "stack" }
    /\ ext_editors \in ExtChains
    /\ store = <<>>
    /\ last = NoCall
    /\ prev = NoCall
    /\ calls = 0
    /\ nReads = 0
    /\ pc = "idle"
    /\ i = 0
    /\ itPos = 0
    /\ attempted = <<>>
    /\ failed = <<>>
    /\ log = <<>>
    /\ FilesIdle
    /\ TileIdle
    /\ SampleIdle

-----------------------------------------------------------------------------
(* Operations *)

\* A direct read: StorageDataset.__getitem__(idx).  convert is a blocking
\* call, so the caller reads before or after it.
GetItem(idx) ==
    /\ pc # "convert"
    /\ nReads < MaxReads
    /\ LET r == StorageGetItem(idx)
       IN  /\ store' = r.store
           /\ last' = CallRecord(idx, r)
           /\ prev' = last
    /\ calls' = calls + 1
    /\ nReads' = nReads + 1
    /\ UNCHANGED <<kind, data, data_sets, corrupt, editors, ext_editors,
                   pc, i, itPos, attempted, failed, log, filesVars, tileVars, sampleVars>>

\* BaseDataset.addEditor on the wrapped dataset
addEditor(editor) ==
    /\ pc # "convert"
    /\ Len(editors) < 1 + MaxEditors
    /\ editors' = Append(editors, editor)
    /\ UNCHANGED <<kind, data, data_sets, corrupt, ext_editors, store, last,
                   prev, calls, nReads, pc, i, itPos, attempted, failed, log,
                   filesVars, tileVars, sampleVars>>

\* StorageDataset.convert: the DataLoader iterator is created
\* (batch_size 1, shuffle False: a sequential sampler over range(len)).
ConvertStart ==
    /\ pc = "idle"
    /\ pc' = "convert"
    /\ i' = 0
    /\ itPos' = 0
    /\ UNCHANGED <<kind, data, data_sets, corrupt, editors, ext_editors, store,
                   last, prev, calls, nReads, attempted, failed, log,
                   filesVars, tileVars, sampleVars>>

\* The loop of convert with "return" in place of "continue" in the
\* exception handler.
ConvertNextReturnsOnError ==
    /\ pc = "convert"
    /\ i < Len(data)
    /\ itPos < Len(data)
    /\ LET r == StorageGetItem(itPos)
       IN  /\ store' = r.store
           /\ last' = CallRecord(itPos, r)
           /\ prev' = last
           /\ calls' = calls + 1
           /\ itPos' = itPos + 1
           /\ attempted' = Append(attempted, itPos)
           /\ failed' = IF r.ret.ok THEN failed ELSE Append(failed, itPos)
           /\ log' = IF r.ret.ok THEN log ELSE Append(log, At(data, i))
           /\ i' = i + 1
           /\ pc' = IF r.ret.ok THEN pc ELSE "done"
    /\ UNCHANGED <<kind, data, data_sets, corrupt, editors, ext_editors, nReads,
                   filesVars, tileVars, sampleVars>>

\* One iteration of the loop of convert: next(it) makes a worker run
\* __getitem__ on the sampler's next index and hands its batch, or its
\* exception, to the loop; the exception is logged with dataset.data[i]
\* and the loop continues.
ConvertNext ==
    /\ pc = "convert"
    /\ i < Len(data)
    /\ IF itPos >= Len(data)
       THEN \* StopIteration: return
            /\ pc' = "done"
            /\ UNCHANGED <<store, last, prev, calls, i, itPos, attempted,
                           failed, log>>
       ELSE LET r == StorageGetItem(itPos)
            IN  /\ store' = r.store
                /\ last' = CallRecord(itPos, r)
                /\ prev' = last
                /\ calls' = calls + 1
                /\ itPos' = itPos + 1
                /\ attempted' = Append(attempted, itPos)
                /\ failed' = IF r.ret.ok THEN failed ELSE Append(failed, itPos)
                /\ log' = IF r.ret.ok THEN log ELSE Append(log, At(data, i))
                /\ i' = i + 1
                /\ pc' = pc
    /\ UNCHANGED <<kind, data, data_sets, corrupt, editors, ext_editors, nReads,
                   filesVars, tileVars, sampleVars>>

\* The loop of convert is exhausted: convert returns.
ConvertEnd ==
    /\ pc = "convert"
    /\ i >= Len(data)
    /\ pc' = "done"
    /\ UNCHANGED <<kind, data, data_sets, corrupt, editors, ext_editors, store,
                   last, prev, calls, nReads, i, itPos, attempted, failed, log,
                   filesVars, tileVars, sampleVars>>

NextStorage ==
    \/ \E idx \in Range(Len(data)) : GetItem(idx)
    \/ \E e \in AddedEditors : addEditor(e)
    \/ ConvertStart
    \/ ConvertNext
    \/ ConvertEnd

Spec == InitStorage /\ [][NextStorage]_vars

-----------------------------------------------------------------------------
(* get_intersecting_files *)

\* A basename "<name>_<year>-<month>" is the tuple <<name, year, month>>;
\* the k-th basename of the model:
NameAt(k) == <<(k + 1) \div 2, 2020 + (k % 2), 1 + ((k \div 2) % 2)>>

Names == { NameAt(k) : k \in 1 .. MaxNames }

\* The instrument directories of the model
Instruments == <<171, 193>>

\* parse(bn.split('_')[1]).month and .year
ParseMonth(bn) == bn[3]
ParseYear(bn) == bn[2]

\* String order of basenames: by name, then year, then month
StrLess(a, b) ==
    \/ a[1] < b[1]
    \/ a[1] = b[1] /\ a[2] < b[2]
    \/ a[1] = b[1] /\ a[2] = b[2] /\ a[3] < b[3]

\* sorted(list(S))
RECURSIVE Sorted(_)
Sorted(S) ==
    IF S = {} THEN <<>>
    ELSE LET m == CHOOSE x \in S : \A y \in S : y = x \/ StrLess(x, y)
         IN  <<m>> \o Sorted(S \ {m})

\* l[::step] of a list, step > 0
StepSlice(l, step) ==
    [k \in 1 .. ((Len(l) + step - 1) \div step) |-> At(l, (k - 1) * step)]

\* glob of one instrument directory, as basenames
GlobBasenames(d) == tree[d]

\* The basenames of the first directory, not intersected with the others.
IntersectionFirstOnly(dirs) == GlobBasenames(dirs[1])

\* set(basenames[0]).intersection(*basenames) over the basename lists of
\* dirs (dirs is not empty)
Intersection(dirs) ==
    { b \in GlobBasenames(dirs[1]) :
        \A j \in DOMAIN dirs : b \in GlobBasenames(dirs[j]) }

\* os.path.join(path, str(dir), b)
JoinPath(dir, b) == <<"path", dir, b>>

\* The months and the years filter; an empty or absent list does not filter.
FilterMonths(S, months) ==
    IF months = {} THEN S ELSE { bn \in S : ParseMonth(bn) \in months }

FilterYears(S, years) ==
    IF years = {} THEN S ELSE { bn \in S : ParseYear(bn) \in years }

\* get_intersecting_files(path, dirs, months, years, n_samples) with
\* basenames=None and ext=None; n_samples = 0 stands for None.  The result
\* is ok with the lists of paths, or the exception that was raised.
get_intersecting_files(dirs, months, years, n_samples) ==
    IF dirs = <<>>
    THEN [ok |-> FALSE, val |-> <<>>, exc |-> "IndexError"]
    ELSE LET basenames == Sorted(FilterYears(FilterMonths(Intersection(dirs),
                                                          months), years))
         IN  IF n_samples # 0 /\ Len(basenames) \div n_samples = 0
             THEN [ok |-> FALSE, val |-> <<>>, exc |-> "ValueError"]
             ELSE LET sampled == IF n_samples # 0
                                 THEN StepSlice(basenames,
                                                Len(basenames) \div n_samples)
                                 ELSE basenames
                  IN  [ok |-> TRUE,
                       val |-> [j \in DOMAIN dirs |->
                                  [k \in DOMAIN sampled |->
                                     JoinPath(dirs[j], sampled[k])]],
                       exc |-> ""]

\* No dataset has been built.
StorageIdle ==
    /\ kind = "base"
    /\ data = <<>>
    /\ data_sets = <<>>
    /\ corrupt = {}
    /\ editors = <<>>
    /\ ext_editors = <<>>
    /\ store = <<>>
    /\ last = NoCall
    /\ prev = NoCall
    /\ calls = 0
    /\ nReads = 0
    /\ pc = "idle"
    /\ i = 0
    /\ itPos = 0
    /\ attempted = <<>>
    /\ failed = <<>>
    /\ log = <<>>

\* The directory trees and the arguments of the model.
InitFiles ==
    /\ tree \in [{Instruments[j] : j \in DOMAIN Instruments} -> SUBSET Names]
    /\ \E n \in 0 .. Len(Instruments),
          months \in {{}, {1}},
          years \in {{}, {2020}},
          n_samples \in 0 .. MaxSamples :
         fargs = [dirs |-> SubSeq(Instruments, 1, n), months |-> months,
                  years |-> years, n_samples |-> n_samples]
    /\ fresult = [state |-> "pending"]
    /\ StorageIdle
    /\ TileIdle
    /\ SampleIdle

\* The call returns or raises.
CallIntersecting ==
    /\ fresult.state = "pending"
    /\ LET r == get_intersecting_files(fargs.dirs, fargs.months, fargs.years,
                                       fargs.n_samples)
       IN  fresult' = [state |-> "done", ok |-> r.ok, val |-> r.val,
                       exc |-> r.exc]
    /\ UNCHANGED <<tree, fargs, storageVars, tileVars, sampleVars>>

NextFiles == CallIntersecting

SpecFiles == InitFiles /\ [][NextFiles]_vars

-----------------------------------------------------------------------------
(* Arrays: a shape and the elements in row-major (C) order *)

RECURSIVE Prod(_)
Prod(shape) == IF shape = <<>> THEN 1 ELSE Head(shape) * Prod(Tail(shape))

\* The row-major offset of a multi-index, and the multi-index of an offset
RECURSIVE Ravel(_, _)
Ravel(shape, idx) ==
    IF shape = <<>> THEN 0
    ELSE Head(idx) * Prod(Tail(shape)) + Ravel(Tail(shape), Tail(idx))

RECURSIVE Unravel(_, _)
Unravel(shape, off) ==
    IF shape = <<>> THEN <<>>
    ELSE <<off \div Prod(Tail(shape))>>
         \o Unravel(Tail(shape), off % Prod(Tail(shape)))

\* a[idx]
Elem(a, idx) == a.data[Ravel(a.shape, idx) + 1]

\* The array of a shape whose element at idx is F(idx)
MakeArray(shape, F(_)) ==
    [shape |-> shape,
     data |-> [o \in 1 .. Prod(shape) |-> F(Unravel(shape, o - 1))]]

\* a.reshape(shape) for a shape of the same size: the same elements in the
\* same row-major order.  A -1 entry is replaced by the caller.
Reshape(a, shape) == [shape |-> shape, data |-> a.data]

\* a.transpose(order): axis d of the result is axis order[d] of a
Transpose(a, order) ==
    MakeArray([d \in DOMAIN order |-> a.shape[order[d] + 1]],
              LAMBDA idx : Elem(a, [s \in DOMAIN order |->
                                 idx[CHOOSE d \in DOMAIN order :
                                         order[d] = s - 1]]))

\* list.insert(pos, x), pos 0-based
ListInsert(l, pos, x) ==
    SubSeq(l, 1, pos) \o <<x>> \o SubSeq(l, pos + 1, Len(l))

\* np.moveaxis(a, source, destination): the axes of source are removed from
\* the order and inserted at their destinations, smallest destination first.
\* Here the destinations are given in increasing order (as in the caller).
RECURSIVE MoveAxisOrder(_, _, _)
MoveAxisOrder(order, source, destination) ==
    IF source = <<>> THEN order
    ELSE MoveAxisOrder(ListInsert(order, Head(destination), Head(source)),
                       Tail(source), Tail(destination))

MoveAxis(a, source, destination) ==
    LET rest == SelectSeq([d \in 1 .. Len(a.shape) |-> d - 1],
                          LAMBDA n : \A j \in DOMAIN source : source[j] # n)
    IN  Transpose(a, MoveAxisOrder(rest, source, destination))

\* skimage view_as_blocks accepts a block shape of positive entries, as long
\* as the array shape, that divides the array shape.
BlocksCompatible(shape, block_shape) ==
    /\ Len(shape) = Len(block_shape)
    /\ \A d \in DOMAIN shape :
         block_shape[d] > 0 /\ shape[d] % block_shape[d] = 0

\* view_as_blocks(a, block_shape): element (I, J) of the view is element
\* I * block_shape + J of a.
ViewAsBlocks(a, block_shape) ==
    LET n == Len(a.shape)
    IN  MakeArray([d \in 1 .. n |-> a.shape[d] \div block_shape[d]]
                    \o block_shape,
                  LAMBDA idx : Elem(a, [d \in 1 .. n |->
                                 idx[d] * block_shape[d] + idx[n + d]]))

\* a[k] of an array along its first axis
SubArray(a, k) ==
    LET sz == Prod(Tail(a.shape))
    IN  [shape |-> Tail(a.shape),
         data |-> SubSeq(a.data, k * sz + 1, (k + 1) * sz)]

\* np.array(list of arrays of one shape)
StackArrays(l) ==
    [shape |-> <<Len(l)>> \o l[1].shape,
     data |-> [o \in 1 .. Len(l) * Prod(l[1].shape) |->
                 l[((o - 1) \div Prod(l[1].shape)) + 1]
                   .data[((o - 1) % Prod(l[1].shape)) + 1]]]

-----------------------------------------------------------------------------
(* InstrumentToInstrument *)

\* self.generator on one patch: the identity model.
Generator(patch) == patch

\* _translateBlocks with the final reshape applied to the patches in list
\* order, without np.moveaxis.
TranslateBlocksNoMoveAxis(img, n_patches) ==
    LET patch_dim == Last(img.shape) \div n_patches
        patch_shape == <<At(img.shape, 0), patch_dim, patch_dim>>
    IN  IF ~BlocksCompatible(img.shape, patch_shape)
        THEN [ok |-> FALSE, patches |-> <<>>, val |-> <<>>]
        ELSE LET blocks == ViewAsBlocks(img, patch_shape)
                 n == Prod(blocks.shape) \div Prod(patch_shape)
                 patches == Reshape(blocks, <<n>> \o patch_shape)
                 iti_list == [k \in 1 .. n |-> Generator(SubArray(patches, k - 1))]
                 iti == StackArrays(iti_list)
             IN  [ok |-> TRUE, patches |-> iti_list,
                  val |-> Reshape(iti, <<At(iti.shape, 1),
                                         n_patches * At(iti.shape, 2),
                                         n_patches * At(iti.shape, 3)>>)]

\* _translateBlocks(img, n_patches), n_patches > 0; ok is FALSE when a
\* ValueError is raised (by view_as_blocks or by reshape).
TranslateBlocks(img, n_patches) ==
    LET patch_dim == Last(img.shape) \div n_patches
        patch_shape == <<At(img.shape, 0), patch_dim, patch_dim>>
    IN  IF ~BlocksCompatible(img.shape, patch_shape)
        THEN [ok |-> FALSE, patches |-> <<>>, val |-> <<>>]
        ELSE LET blocks == ViewAsBlocks(img, patch_shape)
                 n == Prod(blocks.shape) \div Prod(patch_shape)
                 patches == Reshape(blocks, <<n>> \o patch_shape)
                 iti_list == [k \in 1 .. n |-> Generator(SubArray(patches, k - 1))]
                 iti == StackArrays(iti_list)
             IN  IF n # n_patches * n_patches
                 THEN [ok |-> FALSE, patches |-> iti_list, val |-> <<>>]
                 ELSE LET iti_patches ==
                              Reshape(iti, <<n_patches, n_patches,
                                             At(iti.shape, 1), At(iti.shape, 2),
                                             At(iti.shape, 3)>>)
                          moved == MoveAxis(iti_patches, <<0, 1>>, <<1, 3>>)
                      IN  [ok |-> TRUE, patches |-> iti_list,
                           val |-> Reshape(moved,
                               <<At(iti_patches.shape, 2),
                                 At(iti_patches.shape, 0) * At(iti_patches.shape, 3),
                                 At(iti_patches.shape, 1) * At(iti_patches.shape, 4)>>)]

\* 2 ** n
RECURSIVE Pow2(_)
Pow2(n) == IF n = 0 THEN 1 ELSE 2 * Pow2(n - 1)

\* The list comprehension of _translateDataset: the i of
\* range(shape[1], shape[1] * 2 ** (depth + patch)) divisible by
\* 2 ** (depth + patch)
MinDimCandidates(shape, depth_generator, patch_factor) ==
    { c \in At(shape, 1) ..
              (At(shape, 1) * Pow2(depth_generator + patch_factor) - 1) :
        c % Pow2(depth_generator + patch_factor) = 0 }

\* min(list); the caller handles the empty list
Min(S) == CHOOSE x \in S : \A y \in S : x <= y

\* PaddingEditor(target_shape).call(img): the image padded (or cropped) to
\* the target shape, channel axis kept.
PaddedShape(shape, target_shape) == <<At(shape, 0)>> \o target_shape

\* The shapes of _translateBlocks(img, n_patches) for an image of the given
\* shape: the patch size, whether view_as_blocks accepts the split, the
\* number of patches, and whether the reshape to an n_patches x n_patches
\* grid accepts that number.
BlocksShapes(shape, n_patches) ==
    LET patch_dim == Last(shape) \div n_patches
        patch_shape == <<At(shape, 0), patch_dim, patch_dim>>
        split == BlocksCompatible(shape, patch_shape)
        tiles == IF split THEN Prod(shape) \div Prod(patch_shape) ELSE 0
    IN  [patch_dim |-> patch_dim, split |-> split, tiles |-> tiles,
         grid |-> split /\ tiles = n_patches * n_patches]

\* _translateDataset on one sample of the given shape, up to the model
\* call: min_dim, the padding and the split into tiles.  found is FALSE
\* when min() raises on an empty list; ok is FALSE when the call raises.
TranslateDataset(shape, depth_generator, patch_factor) ==
    LET cands == MinDimCandidates(shape, depth_generator, patch_factor)
    IN  IF cands = {}
        THEN [ok |-> FALSE, found |-> FALSE, min_dim |-> 0,
              target_shape |-> <<>>, padded |-> <<>>,
              patch_dim |-> 0, tiles |-> 0]
        ELSE LET min_dim == Min(cands)
                 target_shape == <<min_dim, min_dim>>
                 padded == PaddedShape(shape, target_shape)
             IN  IF patch_factor > 0
                 THEN LET b == BlocksShapes(padded, patch_factor)
                      IN  [ok |-> b.grid, found |-> TRUE, min_dim |-> min_dim,
                           target_shape |-> target_shape, padded |-> padded,
                           patch_dim |-> b.patch_dim, tiles |-> b.tiles]
                 ELSE [ok |-> TRUE, found |-> TRUE, min_dim |-> min_dim,
                       target_shape |-> target_shape, padded |-> padded,
                       patch_dim |-> min_dim, tiles |-> 1]

\* An image of the given shape whose pixels all differ
LabelImage(shape, seed) ==
    MakeArray(shape, LAMBDA idx : Ravel(shape, idx) + seed)

\* The calls of the model: _translateBlocks on a padded image of shape
\* (C, p * k, p * k), or _translateDataset on a sample of shape (C, H, W).
InitTile ==
    /\ \/ \E C \in 1 .. MaxChan, p \in 1 .. MaxPatch, k \in 1 .. MaxTile,
             seed \in 0 .. 1 :
            tin = [op |-> "blocks", img |-> LabelImage(<<C, p * k, p * k>>, seed),
                   n_patches |-> p, tile |-> k]
       \/ \E C \in 1 .. MaxChan, H \in 1 .. MaxDim, W \in 1 .. MaxDim,
             d \in 0 .. MaxDepth, p \in 0 .. MaxPatch :
            tin = [op |-> "dataset", shape |-> <<C, H, W>>,
                   depth_generator |-> d, patch_factor |-> p]
    /\ tout = [state |-> "pending"]
    /\ StorageIdle
    /\ FilesIdle
    /\ SampleIdle

TranslateBlocksCall ==
    /\ tin.op = "blocks"
    /\ tout.state = "pending"
    /\ LET r == TranslateBlocks(tin.img, tin.n_patches)
       IN  tout' = [state |-> "done", ok |-> r.ok, patches |-> r.patches,
                    val |-> r.val]
    /\ UNCHANGED <<tin, storageVars, filesVars, sampleVars>>

TranslateDatasetCall ==
    /\ tin.op = "dataset"
    /\ tout.state = "pending"
    /\ LET r == TranslateDataset(tin.shape, tin.depth_generator,
                                 tin.patch_factor)
       IN  tout' = [state |-> "done", ok |-> r.ok, found |-> r.found,
                    min_dim |-> r.min_dim, target_shape |-> r.target_shape,
                    padded |-> r.padded, patch_dim |-> r.patch_dim,
                    tiles |-> r.tiles]
    /\ UNCHANGED <<tin, storageVars, filesVars, sampleVars>>

NextTile ==
    \/ TranslateBlocksCall
    \/ TranslateDatasetCall

SpecTile == InitTile /\ [][NextTile]_vars

-----------------------------------------------------------------------------
(* sample(n_samples) of BaseDataset, ArrayDataset and StorageDataset *)

\* The orders a shuffling sampler can give to the indices of n items
ShuffledOrders(n) ==
    { f \in [1 .. n -> Range(n)] : \A a, b \in 1 .. n : a # b => f[a] # f[b] }

\* The in-memory samples of an ArrayDataset: arrays, one per item
ArrayData == [k \in 1 .. MaxFiles |-> <<k % 3, 0>>]

\* A dataset of MaxFiles items (a BaseDataset of files, a StackDataset or an
\* ArrayDataset), possibly wrapped in a StorageDataset, and a call of sample
\* on it that has not started.
InitSample ==
    /\ kind \in {"base", "stack", "array"}
    /\ CASE kind = "stack" ->
              /\ data_sets = << [k \in 1 .. MaxFiles |-> InstrumentFile(k)] >>
              /\ data \in StackInitData(data_sets, -1)
              /\ editors = <<"stack">>
         [] kind = "base" ->
              /\ data_sets = <<>>
              /\ data \in BaseInitData([k \in 1 .. MaxFiles |-> TreeFile(k)], -1)
              /\ editors = <<"load">>
         [] kind = "array" ->
              /\ data_sets = <<>>
              /\ data = ArrayData
              /\ editors \in { <<>>, <<"check">> }
    /\ corrupt \in { c \in SUBSET ({TreeFile(k) : k \in 1 .. MaxFiles}
                                   \cup {InstrumentFile(k) : k \in 1 .. MaxFiles}) :
                       /\ Cardinality(c) <= 2
                       /\ kind = "array" => c = {}
                       /\ \A f \in c : f.dir = 171 <=> kind = "stack" }
    /\ receiver \in IF kind = "array" THEN {"dataset"} ELSE {"dataset", "storage"}
    /\ ext_editors \in IF receiver = "storage" THEN ExtChains ELSE { <<>> }
    /\ sample_n \in 0 .. (MaxFiles + 1)
    /\ it = [order |-> <<>>, pos |-> 0]
    /\ samples = <<>>
    /\ spc = "start"
    /\ sret = [state |-> "pending"]
    /\ store = <<>>
    /\ last = NoCall
    /\ prev = NoCall
    /\ calls = 0
    /\ nReads = 0
    /\ pc = "idle"
    /\ i = 0
    /\ itPos = 0
    /\ attempted = <<>>
    /\ failed = <<>>
    /\ log = <<>>
    /\ FilesIdle
    /\ TileIdle

\* it = DataLoader(self, batch_size=1, shuffle=True, ...).__iter__();
\* samples = []
SampleStart ==
    /\ spc = "start"
    /\ \E order \in ShuffledOrders(Len(data)) : it' = [order |-> order, pos |-> 0]
    /\ samples' = <<>>
    /\ spc' = "loop"
    /\ UNCHANGED <<receiver, sample_n, sret, storageVars, filesVars, tileVars>>

\* while len(samples) < n_samples
SampleTest ==
    /\ spc = "loop"
    /\ spc' = IF Len(samples) < sample_n THEN "try" ELSE "return"
    /\ UNCHANGED <<receiver, sample_n, it, samples, sret, storageVars,
                   filesVars, tileVars>>

\* The loop body: try: samples.append(next(it)...) except Exception:
\* logging.error(...); continue.  next(it) makes a worker run __getitem__ on
\* the next index of the shuffled order and raises what it raised; on an
\* exhausted iterator it raises StopIteration, which is an Exception, so it
\* is logged and the loop continues like after any other exception.
SampleBody ==
    /\ spc = "try"
    /\ IF it.pos >= Len(it.order)
       THEN /\ spc' = "loop"
            /\ UNCHANGED <<it, samples, store>>
       ELSE LET idx == At(it.order, it.pos)
                r == IF receiver = "storage"
                     THEN StorageGetItem(idx)
                     ELSE [ret |-> getIndex(idx), store |-> store]
            IN  /\ it' = [it EXCEPT !.pos = it.pos + 1]
                /\ store' = r.store
                /\ samples' = IF r.ret.ok THEN Append(samples, r.ret.val)
                              ELSE samples
                /\ spc' = "loop"
    /\ UNCHANGED <<receiver, sample_n, sret, kind, data, data_sets, corrupt,
                   editors, ext_editors, last, prev, calls, nReads, pc, i,
                   itPos, attempted, failed, log, filesVars, tileVars>>

\* del it; return np.array(samples), or np.concatenate(samples) in
\* StorageDataset.sample, which raises ValueError on an empty list.
SampleReturn ==
    /\ spc = "return"
    /\ spc' = "done"
    /\ sret' = IF receiver = "storage" /\ samples = <<>>
               THEN [state |-> "done", ok |-> FALSE, val |-> <<>>]
               ELSE [state |-> "done", ok |-> TRUE, val |-> samples]
    /\ UNCHANGED <<receiver, sample_n, it, samples, storageVars, filesVars,
                   tileVars>>

NextSample ==
    \/ SampleStart
    \/ SampleTest
    \/ SampleBody
    \/ SampleReturn

\* sample runs in the calling thread: as long as it has not returned, its
\* next step is taken.
SpecSample == InitSample /\ [][NextSample]_vars /\ WF_vars(NextSample)

-----------------------------------------------------------------------------
(* Properties of the storage cache *)

\* The set of the elements of a sequence
Elems(q) == { q[k] : k \in DOMAIN q }

\* C1: __getitem__ is load-or-create.  A call on an index whose store file
\* exists does not run the wrapped dataset, returns the ext_editors chain of
\* the stored array and writes nothing.  A call on an index whose store file
\* does not exist runs the wrapped dataset and, when that returns, leaves its
\* raw result in the store file whether or not ext_editors then raises; when
\* it raises nothing is written.  No call removes or changes an existing
\* store file.
C1_LoadOrCreate ==
    [][ calls' = calls + 1 =>
          LET p == StorePath(getId(last'.idx))
          IN  /\ Exists(p) =>
                   /\ ~last'.upstream
                   /\ last'.ret.ok = extConvertData(NpLoad(store[p])).ok
                   /\ last'.ret.val = extConvertData(NpLoad(store[p])).val
                   /\ store' = store
              /\ ~Exists(p) =>
                   /\ last'.upstream
                   /\ last'.raw.ok =>
                        /\ p \in DOMAIN store'
                        /\ store'[p] = NpSave(last'.raw.val)
                        /\ last'.ret.ok = extConvertData(last'.raw.val).ok
                   /\ ~last'.raw.ok => store' = store
              /\ \A q \in DOMAIN store :
                   q \in DOMAIN store' /\ store'[q] = store[q] ]_vars

\* C1 witness: a read that found the store file written by the read before
\* it, after the upstream chain was changed in between.
C1_Witness ==
    /\ calls >= 2
    /\ prev.idx = last.idx
    /\ prev.upstream /\ prev.raw.ok
    /\ last.hit /\ ~last.upstream
    /\ Len(editors) > 1

\* C2: two consecutive reads of the same index, the first of which returned,
\* return the same array, and the store file of the index is the same after
\* the second as after the first.
C2_ConsecutiveReadsAgree ==
    (calls >= 2 /\ prev.idx = last.idx /\ prev.ret.ok) =>
        /\ last.ret = prev.ret
        /\ last.file = prev.file
        /\ last.file # NoFile

\* C2 witness: a cache miss and then a cache hit on the same index, under a
\* post-cache chain that changes the array.
C2_Witness ==
    /\ calls >= 2
    /\ prev.idx = last.idx
    /\ ~prev.hit /\ prev.ret.ok
    /\ last.hit /\ last.ret.ok
    /\ last.ret.val # NpLoad(last.file)

\* C3: convert hands the indices 0, 1, ..., len-1 to __getitem__ once each
\* and in this order; an index that raises is logged with dataset.data of
\* that index and is not tried again; convert ends only after the last
\* index, and every index that did not raise then has its store file.
C3_ConvertVisitsAll ==
    /\ pc = "convert" =>
         /\ itPos = i
         /\ attempted = [k \in 1 .. i |-> k - 1]
    /\ pc = "done" =>
         /\ attempted = [k \in 1 .. Len(data) |-> k - 1]
         /\ Elems(failed) \subseteq Elems(attempted)
         /\ \A a, b \in DOMAIN failed : a < b => failed[a] < failed[b]
         /\ log = [k \in DOMAIN failed |-> At(data, failed[k])]
         /\ \A idx \in Range(Len(data)) :
              idx \notin Elems(failed) => Exists(StorePath(getId(idx)))

\* C3 witness: convert has ended, an index raised and a later index was
\* still processed and cached.
C3_Witness ==
    /\ pc = "done"
    /\ failed # <<>>
    /\ \E idx \in Range(Len(data)) :
         /\ idx > failed[1]
         /\ idx \notin Elems(failed)
         /\ Exists(StorePath(getId(idx)))

\* C10: for a StackDataset, the identifier of an index names the file of
\* the child sample that __getitem__ of that index loads, so the store file
\* keyed by getId(idx) gets the data of that sample: whenever a read of idx
\* runs the stack and saves its result, getId(idx) is the identifier of the
\* file of the first child that was loaded.
C10_IdNamesLoadedSample ==
    (kind = "stack" /\ calls >= 1 /\ last.upstream /\ last.raw.ok) =>
        getId(last.idx) = SplitDot0(Basename(last.raw.src[1]))

-----------------------------------------------------------------------------
(* Properties of get_intersecting_files *)

\* The basenames found under every directory of dirs (dirs is not empty)
CommonNames(dirs) ==
    { b \in Names : \A j \in DOMAIN dirs : b \in tree[dirs[j]] }

\* C4: without filters and for at least one instrument directory, the call
\* returns one list per directory, all of one length; position k of list j
\* is path/dirs[j]/b_k, the b_k are strictly increasing and are exactly the
\* basenames found under every directory.
C4_AlignedSortedIntersection ==
    (/\ fresult.state = "done"
     /\ fargs.dirs # <<>>
     /\ fargs.months = {} /\ fargs.years = {} /\ fargs.n_samples = 0) =>
        /\ fresult.ok
        /\ Len(fresult.val) = Len(fargs.dirs)
        /\ LET b == [k \in DOMAIN fresult.val[1] |-> fresult.val[1][k][3]]
           IN  /\ \A j \in DOMAIN fargs.dirs :
                    /\ Len(fresult.val[j]) = Len(b)
                    /\ \A k \in DOMAIN b :
                         fresult.val[j][k] = <<"path", fargs.dirs[j], b[k]>>
               /\ \A k \in 1 .. (Len(b) - 1) : StrLess(b[k], b[k + 1])
               /\ Elems(b) = CommonNames(fargs.dirs)

\* C4 witness: two directories, each with a basename the other lacks, and
\* two common basenames returned for both.
C4_Witness ==
    /\ fresult.state = "done"
    /\ fargs.months = {} /\ fargs.years = {} /\ fargs.n_samples = 0
    /\ Len(fargs.dirs) = 2
    /\ tree[171] \ tree[193] # {}
    /\ tree[193] \ tree[171] # {}
    /\ fresult.ok
    /\ Len(fresult.val[1]) = 2
    /\ Len(fresult.val[2]) = 2

\* C5: when n_samples is given and at least one basename is common, the
\* call returns, for every directory, the elements of the sorted common
\* list at the indices 0, s, 2s, ... with s = floor(total / n_samples).
C5_StrideDownsample ==
    (/\ fresult.state = "done"
     /\ fargs.dirs # <<>>
     /\ fargs.n_samples >= 1
     /\ FilterYears(FilterMonths(CommonNames(fargs.dirs), fargs.months),
                    fargs.years) # {}) =>
        LET common == Sorted(FilterYears(FilterMonths(CommonNames(fargs.dirs),
                                                      fargs.months), fargs.years))
            s == Len(common) \div fargs.n_samples
        IN  /\ fresult.ok
            /\ s >= 1
            /\ \A j \in DOMAIN fargs.dirs :
                 /\ \A k \in DOMAIN fresult.val[j] :
                      /\ (k - 1) * s < Len(common)
                      /\ fresult.val[j][k] =
                           <<"path", fargs.dirs[j], At(common, (k - 1) * s)>>
                 /\ Len(fresult.val[j]) * s >= Len(common)

\* C7: when no basename is common to the directories, or there is no
\* directory, the call returns empty lists and does not raise, whatever
\* months, years and n_samples are.
C7_EmptyAlignmentReturnsEmpty ==
    (/\ fresult.state = "done"
     /\ (fargs.dirs = <<>> \/ CommonNames(fargs.dirs) = {})) =>
        /\ fresult.ok
        /\ Len(fresult.val) = Len(fargs.dirs)
        /\ \A j \in DOMAIN fresult.val : fresult.val[j] = <<>>

-----------------------------------------------------------------------------
(* Properties of the tiled translation *)

\* C6: _translateBlocks on an image of shape (C, p*k, p*k) makes p*p patches
\* of shape (C, k, k), patch r*p + c being the block at tile row r and tile
\* column c, and with the identity model returns the input image: the block
\* of patch (r, c) is at grid position (r, c) of the result.
C6_TilingRoundTrip ==
    (tin.op = "blocks" /\ tout.state = "done") =>
        LET p == tin.n_patches
            k == tin.tile
            C == At(tin.img.shape, 0)
        IN  /\ tout.ok
            /\ Len(tout.patches) = p * p
            /\ \A r \in Range(p), c \in Range(p) :
                 LET patch == At(tout.patches, r * p + c)
                 IN  /\ patch.shape = <<C, k, k>>
                     /\ \A ch \in Range(C), y \in Range(k), x \in Range(k) :
                          /\ Elem(patch, <<ch, y, x>>)
                               = Elem(tin.img, <<ch, r * k + y, c * k + x>>)
                          /\ Elem(tout.val, <<ch, r * k + y, c * k + x>>)
                               = Elem(patch, <<ch, y, x>>)
            /\ tout.val = tin.img

\* C6 witness: a two-channel image split into a grid of at least 2 x 2 tiles
\* of at least 2 x 2 pixels and reassembled.
C6_Witness ==
    /\ tin.op = "blocks"
    /\ tout.state = "done"
    /\ tout.ok
    /\ tin.n_patches >= 2
    /\ tin.tile >= 2
    /\ At(tin.img.shape, 0) >= 2
    /\ Len(tout.patches) = tin.n_patches * tin.n_patches

\* C8: for every sample shape (C, H, W), depth_generator and patch_factor,
\* _translateDataset finds min_dim, the smallest integer that is at least W
\* and at least H and divisible by 2^(depth_generator + patch_factor), and
\* the target shape is (min_dim, min_dim).
C8_MinDimSmallestMultiple ==
    (tin.op = "dataset" /\ tout.state = "done") =>
        LET H == At(tin.shape, 1)
            W == At(tin.shape, 2)
            m == Pow2(tin.depth_generator + tin.patch_factor)
        IN  /\ tout.found
            /\ tout.min_dim >= W
            /\ tout.min_dim >= H
            /\ tout.min_dim % m = 0
            /\ \A n \in 1 .. (tout.min_dim - 1) :
                 ~(n >= W /\ n >= H /\ n % m = 0)
            /\ tout.target_shape = <<tout.min_dim, tout.min_dim>>

\* C9: for every patch_factor p > 0 for which min_dim is found, the padded
\* image is split into exactly p*p tiles with tile_dim * p = min_dim, the
\* split does not raise, and tile_dim is divisible by 2^depth_generator.
C9_TilesPartitionPadded ==
    (/\ tin.op = "dataset" /\ tout.state = "done"
     /\ tin.patch_factor > 0
     /\ tout.found) =>
        /\ tout.ok
        /\ tout.tiles = tin.patch_factor * tin.patch_factor
        /\ tout.patch_dim * tin.patch_factor = tout.min_dim
        /\ tout.patch_dim % Pow2(tin.depth_generator) = 0

-----------------------------------------------------------------------------
(* Properties of sample *)

\* C11: sample(n_samples) terminates and returns exactly n_samples samples,
\* for every dataset and every n_samples.
C11_SampleTerminates ==
    <>(spc = "done" /\ sret.ok /\ Len(sret.val) = sample_n)

=============================================================================
